---- MODULE Spec2Model ----
(***************************************************************************)
(* Model of the NSX-T infrastructure ensurer                               *)
(* (pkg/vsphere/infrastructure/ensurer/ensurer.go): the ordered task       *)
(* pipeline of EnsureInfrastructure, the recovery helper tryRecover and    *)
(* the two passes of EnsureInfrastructureDeleted.                          *)
(*                                                                         *)
(* The task bodies (package task) are modelled by their contract:         *)
(* Ensure / EnsureDeleted / TryRecover act on one slot of the state and on *)
(* the remote objects that carry the slot's tags.                          *)
(***************************************************************************)
EXTENDS Integers, Sequences, FiniteSets, TLC

\* ---------------------------------------------------------------- bounds
\* number of tasks of the task list that are modelled
NumTasks == 3
\* largest number of remote objects that may exist for one slot
MaxObjs == 3

\* ------------------------------------------------------------- task list
\* The task list built by NewNSXTInfrastructureEnsurer, in creation order.
\* Tasks that are not recoverable are lookup tasks (tryRecover); the
\* Advanced* tasks recover through the advanced API (common tags).
TaskList ==
  << [name |-> "LookupTier0Gateway",          kind |-> "lookup"],
     [name |-> "LookupTransportZone",         kind |-> "lookup"],
     [name |-> "LookupEdgeCluster",           kind |-> "lookup"],
     [name |-> "LookupSNATIPPool",            kind |-> "lookup"],
     [name |-> "Tier1Gateway",                kind |-> "recoverable"],
     [name |-> "Tier1GatewayLocaleService",   kind |-> "recoverable"],
     [name |-> "Segment",                     kind |-> "recoverable"],
     [name |-> "SNATIPAddressAllocation",     kind |-> "recoverable"],
     [name |-> "SNATIPAddressRealization",    kind |-> "recoverable"],
     [name |-> "SNATRule",                    kind |-> "recoverable"],
     [name |-> "AdvancedLookupLogicalSwitch", kind |-> "lookup"],
     [name |-> "AdvancedDHCPProfile",         kind |-> "advanced"],
     [name |-> "AdvancedDHCPServer",          kind |-> "advanced"],
     [name |-> "AdvancedDHCPPort",            kind |-> "advanced"],
     [name |-> "AdvancedDHCPIPPool",          kind |-> "advanced"] >>

\* e.tasks: the modelled window of the list (SNATRule,
\* AdvancedLookupLogicalSwitch, AdvancedDHCPProfile, ...), order preserved.
tasks == [i \in 1..NumTasks |-> TaskList[9 + i]]

Slots == 1..NumTasks
Kind(i) == tasks[i].kind
Label(i) == tasks[i].name

\* a nil *api.Reference
NoRef == 0
Refs == 0..MaxObjs

\* the nil error
NoErr == [label |-> "", wrap |-> "nil"]

VARIABLES
  state,     \* *api.NSXTInfraState: slot -> Reference (NoRef when nil)
  remote,    \* remote side: slot -> set of existing objects with the slot's tags
  pc,        \* "idle" | "ensure" | "recover" | "delete" | "returned"
  op,        \* the public operation last called: "none" | "reconcile" | "delete"
  specNil,   \* EnsureInfrastructureDeleted was called with spec == nil
  idx,       \* loop variable of the running loop
  err,       \* error returned by the last call
  trace,     \* task operations invoked by the current call, in order
  faults,    \* remote calls may still fail
  snap,      \* state and remote side when the current call started
  passSnap,  \* state and remote side when the delete pass started
  second,    \* the current reconcile directly follows a successful reconcile
  searchFailed, \* slots for which a recovery search of a reconcile has failed
  steps      \* loop iterations of the current call: pre-pass and main pass

vars == << state, remote, pc, op, specNil, idx, err, trace, faults, snap,
           passSnap, second, searchFailed, steps >>

\* outcomes of a remote call the environment may choose
FailChoices == IF faults THEN BOOLEAN ELSE {FALSE}

Event(c, i, ref, res) == [call |-> c, task |-> i, ref |-> ref, res |-> res]

\* ------------------------------------------------------------ task bodies
\* tsk.Reference(state)
Reference(st, i) == st[i]

\* smallest identifier not in use for the slot
FreshId(rem, i) ==
  CHOOSE o \in 1..MaxObjs : o \notin rem[i] /\ \A p \in 1..MaxObjs : p < o => p \in rem[i]

\* tsk.Ensure(e, spec, state)
Ensure(st, rem, i, fails) ==
  IF fails
    THEN [state |-> st, remote |-> rem, action |-> "error"]
  ELSE IF st[i] # NoRef
    THEN IF st[i] \in rem[i]
           THEN [state |-> st, remote |-> rem, action |-> "verified"]
           ELSE [state |-> st, remote |-> rem, action |-> "error"]
  ELSE IF Kind(i) = "lookup"
    THEN IF rem[i] = {}
           THEN [state |-> st, remote |-> rem, action |-> "error"]
           ELSE [state |-> [st EXCEPT ![i] = CHOOSE o \in rem[i] : TRUE],
                 remote |-> rem, action |-> "found"]
  ELSE LET id == FreshId(rem, i)
       IN [state |-> [st EXCEPT ![i] = id],
           remote |-> [rem EXCEPT ![i] = @ \cup {id}],
           action |-> "created"]

\* tsk.EnsureDeleted(e, state)
EnsureDeleted(st, rem, i, fails) ==
  IF st[i] = NoRef
    THEN [state |-> st, remote |-> rem, res |-> "absent"]
  ELSE IF fails
    THEN [state |-> st, remote |-> rem, res |-> "error"]
  ELSE [state |-> [st EXCEPT ![i] = NoRef],
        remote |-> IF Kind(i) = "lookup" THEN rem
                   ELSE [rem EXCEPT ![i] = @ \ {st[i]}],
        res |-> "deleted"]

\* task.TryRecover(e, state, rt, tags) / rt.TryRecover(e, state, tags):
\* search by tags, restore the Reference when exactly one object matches
TryRecover(st, rem, i, searchFails) ==
  IF searchFails
    THEN [state |-> st, res |-> "failed"]
  ELSE IF Cardinality(rem[i]) = 1
    THEN [state |-> [st EXCEPT ![i] = CHOOSE o \in rem[i] : TRUE], res |-> "restored"]
  ELSE IF rem[i] = {}
    THEN [state |-> st, res |-> "absent"]
  ELSE [state |-> st, res |-> "ambiguous"]

\* -------------------------------------------------------------- ensurer
\* slots of the failed recovery searches among the events of one step
FailedSearches(events) ==
  {events[k].task : k \in {j \in DOMAIN events : events[j].res = "failed"}}

\* variant: recovery is switched off
IsTryRecoverDisabled == FALSE

\* e.IsTryRecoverEnabled()
IsTryRecoverEnabled == TRUE

\* variant: the Reference is not examined before recovering
tryRecoverUnguarded(st, rem, i, lookup, searchFails, ensureFails) ==
  IF IsTryRecoverEnabled
    THEN IF Kind(i) \in {"recoverable", "advanced"}
           THEN LET t == TryRecover(st, rem, i, searchFails)
                IN [state |-> t.state, remote |-> rem, failed |-> FALSE,
                    events |-> << Event("TryRecover", i, st[i], t.res) >>]
         ELSE IF lookup
           THEN LET a == Ensure(st, rem, i, ensureFails)
                IN [state |-> a.state, remote |-> a.remote,
                    failed |-> a.action = "error",
                    events |-> << Event("Ensure", i, st[i], a.action) >>]
         ELSE [state |-> st, remote |-> rem, failed |-> FALSE, events |-> << >>]
    ELSE [state |-> st, remote |-> rem, failed |-> FALSE, events |-> << >>]

\* variant: recovery is attempted for slots that hold a Reference
tryRecoverInverted(st, rem, i, lookup, searchFails, ensureFails) ==
  IF IsTryRecoverEnabled /\ Reference(st, i) # NoRef
    THEN IF Kind(i) \in {"recoverable", "advanced"}
           THEN LET t == TryRecover(st, rem, i, searchFails)
                IN [state |-> t.state, remote |-> rem, failed |-> FALSE,
                    events |-> << Event("TryRecover", i, st[i], t.res) >>]
         ELSE [state |-> st, remote |-> rem, failed |-> FALSE, events |-> << >>]
    ELSE [state |-> st, remote |-> rem, failed |-> FALSE, events |-> << >>]

\* variant: with lookup set, Ensure is called for every kind of task
tryRecoverLookupAll(st, rem, i, lookup, searchFails, ensureFails) ==
  IF IsTryRecoverEnabled /\ Reference(st, i) = NoRef
    THEN IF lookup
           THEN LET a == Ensure(st, rem, i, ensureFails)
                IN [state |-> a.state, remote |-> a.remote,
                    failed |-> a.action = "error",
                    events |-> << Event("Ensure", i, NoRef, a.action) >>]
         ELSE IF Kind(i) \in {"recoverable", "advanced"}
           THEN LET t == TryRecover(st, rem, i, searchFails)
                IN [state |-> t.state, remote |-> rem, failed |-> FALSE,
                    events |-> << Event("TryRecover", i, NoRef, t.res) >>]
         ELSE [state |-> st, remote |-> rem, failed |-> FALSE, events |-> << >>]
    ELSE [state |-> st, remote |-> rem, failed |-> FALSE, events |-> << >>]

\* e.tryRecover(spec, state, tsk, lookup)
tryRecover(st, rem, i, lookup, searchFails, ensureFails) ==
  IF IsTryRecoverEnabled /\ Reference(st, i) = NoRef
    THEN IF Kind(i) \in {"recoverable", "advanced"}
           THEN LET t == TryRecover(st, rem, i, searchFails)
                IN [state |-> t.state, remote |-> rem, failed |-> FALSE,
                    events |-> << Event("TryRecover", i, NoRef, t.res) >>]
         ELSE IF lookup
           THEN LET a == Ensure(st, rem, i, ensureFails)
                IN [state |-> a.state, remote |-> a.remote,
                    failed |-> a.action = "error",
                    events |-> << Event("Ensure", i, NoRef, a.action) >>]
         ELSE [state |-> st, remote |-> rem, failed |-> FALSE, events |-> << >>]
    ELSE [state |-> st, remote |-> rem, failed |-> FALSE, events |-> << >>]

\* variant: Ensure is skipped while the slot has no Reference after recovery
EnsureInfrastructureBodySkipping(st, rem, i, searchFails, ensureFails) ==
  LET r == tryRecover(st, rem, i, FALSE, searchFails, FALSE)
      a == Ensure(r.state, r.remote, i, ensureFails)
  IN IF r.state[i] = NoRef
       THEN [state |-> r.state, remote |-> r.remote, failed |-> FALSE,
             events |-> r.events]
       ELSE [state |-> a.state, remote |-> a.remote,
             failed |-> a.action = "error",
             events |-> r.events \o << Event("Ensure", i, r.state[i], a.action) >>]

\* variant: a failed recovery search ends the iteration as a failure
EnsureInfrastructureBodyAborting(st, rem, i, searchFails, ensureFails) ==
  LET r == tryRecover(st, rem, i, FALSE, searchFails, FALSE)
      a == Ensure(r.state, r.remote, i, ensureFails)
  IN IF FailedSearches(r.events) # {}
       THEN [state |-> r.state, remote |-> r.remote, failed |-> TRUE,
             events |-> r.events]
       ELSE [state |-> a.state, remote |-> a.remote,
             failed |-> a.action = "error",
             events |-> r.events \o << Event("Ensure", i, r.state[i], a.action) >>]

\* body of the loop of EnsureInfrastructure for task i
EnsureInfrastructureBody(st, rem, i, searchFails, ensureFails) ==
  LET r == tryRecover(st, rem, i, FALSE, searchFails, FALSE)
      a == Ensure(r.state, r.remote, i, ensureFails)
  IN [state |-> a.state, remote |-> a.remote,
      failed |-> a.action = "error",
      events |-> r.events \o << Event("Ensure", i, r.state[i], a.action) >>]

\* variant: a failed Ensure does not stop the loop
AfterEnsureContinuing(i, failed) ==
  IF i = NumTasks
    THEN [pc |-> "returned", idx |-> i,
          err |-> IF failed THEN [label |-> Label(i), wrap |-> "failed"] ELSE NoErr]
  ELSE [pc |-> "ensure", idx |-> i + 1, err |-> NoErr]

\* variant: a failed Ensure is swallowed like a failed recovery
AfterEnsureSwallowing(i, failed) ==
  IF failed
    THEN [pc |-> "returned", idx |-> i, err |-> NoErr]
  ELSE IF i = NumTasks
    THEN [pc |-> "returned", idx |-> i, err |-> NoErr]
  ELSE [pc |-> "ensure", idx |-> i + 1, err |-> NoErr]

\* variant: a failed Ensure is tried again
AfterEnsureRetrying(i, failed) ==
  IF failed
    THEN [pc |-> "ensure", idx |-> i, err |-> NoErr]
  ELSE IF i = NumTasks
    THEN [pc |-> "returned", idx |-> i, err |-> NoErr]
  ELSE [pc |-> "ensure", idx |-> i + 1, err |-> NoErr]

\* variant: the loop returns nil after the first successful Ensure
AfterEnsureStopping(i, failed) ==
  IF failed
    THEN [pc |-> "returned", idx |-> i,
          err |-> [label |-> Label(i), wrap |-> "failed"]]
    ELSE [pc |-> "returned", idx |-> i, err |-> NoErr]

\* control flow of EnsureInfrastructure after tsk.Ensure returned
AfterEnsure(i, failed) ==
  IF failed
    THEN [pc |-> "returned", idx |-> i,
          err |-> [label |-> Label(i), wrap |-> "failed"]]
  ELSE IF i = NumTasks
    THEN [pc |-> "returned", idx |-> i, err |-> NoErr]
  ELSE [pc |-> "ensure", idx |-> i + 1, err |-> NoErr]

\* variant: the recovery pre-pass runs without a specification as well
RunsPrePassAlways(nil) == TRUE

\* the recovery pre-pass runs only when spec != nil
RunsPrePass(nil) == ~nil

\* variant: the delete pass starts one task too early in the list
DeleteStartOffByOne == NumTasks - 1

\* first index of the delete pass: i := len(e.tasks) - 1
DeleteStart == NumTasks

\* variant: a failed recovery aborts the call like a failed EnsureDeleted
AfterTryRecoverAborting(i, failed) ==
  IF failed
    THEN [pc |-> "returned", idx |-> i,
          err |-> [label |-> Label(i), wrap |-> "deleting failed"]]
  ELSE IF i = NumTasks
    THEN [pc |-> "delete", idx |-> DeleteStart, err |-> NoErr]
  ELSE [pc |-> "recover", idx |-> i + 1, err |-> NoErr]

\* variant: the pre-pass loop is left after its first iteration
AfterTryRecoverBreaking(i, failed) ==
  [pc |-> "delete", idx |-> DeleteStart, err |-> NoErr]

\* control flow of the recovery pre-pass after e.tryRecover returned
AfterTryRecover(i, failed) ==
  IF i = NumTasks
    THEN [pc |-> "delete", idx |-> DeleteStart, err |-> NoErr]
    ELSE [pc |-> "recover", idx |-> i + 1, err |-> NoErr]

\* variant: the delete pass stops at the first task that had nothing to delete
AfterEnsureDeletedStopOnAbsent(i, res) ==
  IF res = "error"
    THEN [pc |-> "returned", idx |-> i,
          err |-> [label |-> Label(i), wrap |-> "deleting failed"]]
  ELSE IF i = 1 \/ res = "absent"
    THEN [pc |-> "returned", idx |-> i, err |-> NoErr]
  ELSE [pc |-> "delete", idx |-> i - 1, err |-> NoErr]

\* variant: a failed EnsureDeleted is only remembered, the pass goes on
AfterEnsureDeletedContinuing(i, res) ==
  IF i = 1
    THEN [pc |-> "returned", idx |-> i,
          err |-> IF res = "error"
                    THEN [label |-> Label(i), wrap |-> "deleting failed"]
                    ELSE NoErr]
  ELSE [pc |-> "delete", idx |-> i - 1, err |-> NoErr]

\* variant: the delete loop ends before the first task of the list (i > 0)
AfterEnsureDeletedSkippingFirst(i, res) ==
  IF res = "error"
    THEN [pc |-> "returned", idx |-> i,
          err |-> [label |-> Label(i), wrap |-> "deleting failed"]]
  ELSE IF i <= 2
    THEN [pc |-> "returned", idx |-> i, err |-> NoErr]
  ELSE [pc |-> "delete", idx |-> i - 1, err |-> NoErr]

\* control flow of the delete pass after tsk.EnsureDeleted returned
AfterEnsureDeleted(i, res) ==
  IF res = "error"
    THEN [pc |-> "returned", idx |-> i,
          err |-> [label |-> Label(i), wrap |-> "deleting failed"]]
  ELSE IF i = 1
    THEN [pc |-> "returned", idx |-> i, err |-> NoErr]
  ELSE [pc |-> "delete", idx |-> i - 1, err |-> NoErr]

\* ---------------------------------------------------------------- init
\* value of the snapshots while no call is running
NoSnap ==
  [state |-> [i \in Slots |-> NoRef],
   remote |-> [i \in Slots |-> IF Kind(i) = "lookup" THEN {1} ELSE {}]]

\* no loop iteration has run yet
NoSteps == [pre |-> 0, pass |-> 0]

Init ==
  /\ state = [i \in Slots |-> NoRef]
  /\ remote = [i \in Slots |-> IF Kind(i) = "lookup" THEN {1} ELSE {}]
  /\ pc = "idle"
  /\ op = "none"
  /\ specNil = FALSE
  /\ idx = 1
  /\ err = NoErr
  /\ trace = << >>
  /\ faults = TRUE
  /\ snap = NoSnap
  /\ passSnap = NoSnap
  /\ second = FALSE
  /\ searchFailed = {}
  /\ steps = NoSteps

Idle == pc \in {"idle", "returned"}

\* -------------------------------------------------------------- actions
\* the caller invokes EnsureInfrastructure(spec, state)
CallEnsureInfrastructure ==
  /\ Idle
  /\ pc' = "ensure"
  /\ op' = "reconcile"
  /\ idx' = 1
  /\ err' = NoErr
  /\ trace' = << >>
  /\ snap' = [state |-> state, remote |-> remote]
  /\ second' = (pc = "returned" /\ op = "reconcile" /\ err = NoErr)
  /\ specNil' = FALSE
  /\ passSnap' = NoSnap
  /\ steps' = NoSteps
  /\ UNCHANGED << state, remote, faults, searchFailed >>

\* one iteration of the loop of EnsureInfrastructure
EnsureInfrastructureStep ==
  /\ pc = "ensure"
  /\ \E searchFails \in FailChoices, ensureFails \in FailChoices :
       LET b == EnsureInfrastructureBody(state, remote, idx, searchFails, ensureFails)
           n == AfterEnsure(idx, b.failed)
       IN /\ state' = b.state
          /\ remote' = b.remote
          /\ trace' = trace \o b.events
          /\ pc' = n.pc
          /\ idx' = n.idx
          /\ err' = n.err
          /\ searchFailed' = searchFailed \cup FailedSearches(b.events)
  /\ steps' = [steps EXCEPT !.pass = @ + 1]
  /\ UNCHANGED << op, specNil, faults, snap, passSnap, second >>

\* the caller invokes EnsureInfrastructureDeleted(spec, state)
CallEnsureInfrastructureDeleted ==
  /\ Idle
  /\ \E nil \in BOOLEAN :
       /\ specNil' = nil
       /\ pc' = IF RunsPrePass(nil) THEN "recover" ELSE "delete"
       /\ idx' = IF RunsPrePass(nil) THEN 1 ELSE DeleteStart
       /\ passSnap' = IF RunsPrePass(nil)
                         THEN NoSnap
                         ELSE [state |-> state, remote |-> remote]
  /\ op' = "delete"
  /\ err' = NoErr
  /\ trace' = << >>
  /\ snap' = [state |-> state, remote |-> remote]
  /\ second' = FALSE
  /\ steps' = NoSteps
  /\ UNCHANGED << state, remote, faults, searchFailed >>

\* one iteration of the recovery pre-pass of EnsureInfrastructureDeleted
RecoverStep ==
  /\ pc = "recover"
  /\ \E searchFails \in FailChoices, ensureFails \in FailChoices :
       LET r == tryRecover(state, remote, idx, TRUE, searchFails, ensureFails)
           n == AfterTryRecover(idx, r.failed)
       IN /\ state' = r.state
          /\ remote' = r.remote
          /\ trace' = trace \o r.events
          /\ pc' = n.pc
          /\ idx' = n.idx
          /\ err' = n.err
          /\ passSnap' = IF n.pc = "delete"
                           THEN [state |-> r.state, remote |-> r.remote]
                           ELSE passSnap
  /\ steps' = [steps EXCEPT !.pre = @ + 1]
  /\ UNCHANGED << op, specNil, faults, snap, second, searchFailed >>

\* one iteration of the delete pass of EnsureInfrastructureDeleted
DeleteStep ==
  /\ pc = "delete"
  /\ \E fails \in FailChoices :
       LET d == EnsureDeleted(state, remote, idx, fails)
           n == AfterEnsureDeleted(idx, d.res)
       IN /\ state' = d.state
          /\ remote' = d.remote
          /\ trace' = Append(trace, Event("EnsureDeleted", idx, state[idx], d.res))
          /\ pc' = n.pc
          /\ idx' = n.idx
          /\ err' = n.err
  /\ steps' = [steps EXCEPT !.pass = @ + 1]
  /\ UNCHANGED << op, specNil, faults, snap, passSnap, second, searchFailed >>

\* between two calls the persisted state loses the Reference of a slot
\* whose remote object still exists
LoseReference ==
  /\ Idle
  /\ \E i \in Slots :
       /\ state[i] # NoRef
       /\ Cardinality(remote[i]) < MaxObjs
       /\ state' = [state EXCEPT ![i] = NoRef]
  /\ pc' = "idle"
  /\ op' = "none"
  /\ specNil' = FALSE
  /\ idx' = 1
  /\ err' = NoErr
  /\ trace' = << >>
  /\ snap' = NoSnap
  /\ passSnap' = NoSnap
  /\ second' = FALSE
  /\ steps' = NoSteps
  /\ UNCHANGED << remote, faults, searchFailed >>

\* remote calls stop failing
FaultsCease ==
  /\ faults
  /\ faults' = FALSE
  /\ UNCHANGED << state, remote, pc, op, specNil, idx, err, trace, snap,
                  passSnap, second, searchFailed, steps >>

Next ==
  \/ CallEnsureInfrastructure
  \/ EnsureInfrastructureStep
  \/ CallEnsureInfrastructureDeleted
  \/ RecoverStep
  \/ DeleteStep
  \/ LoseReference
  \/ FaultsCease

Spec == Init /\ [][Next]_vars

\* a caller that only reconciles and re-invokes EnsureInfrastructure after
\* every return; a started call runs its loop to the return
NextRetry ==
  \/ CallEnsureInfrastructure
  \/ EnsureInfrastructureStep
  \/ LoseReference
  \/ FaultsCease

SpecRetry ==
  /\ Init
  /\ [][NextRetry]_vars
  /\ WF_vars(CallEnsureInfrastructure)
  /\ WF_vars(EnsureInfrastructureStep)

\* ------------------------------------------------------------ properties
\* positions of the trace at which operation c was invoked
Calls(c) == {k \in DOMAIN trace : trace[k].call = c}

\* positions of the trace at which operation c was invoked for task i
CallsOf(c, i) == {k \in Calls(c) : trace[k].task = i}

\* positions of the recovery pre-pass of a delete call
PrePass == Calls("TryRecover") \cup Calls("Ensure")

\* C1: in a run of EnsureInfrastructure, when the Ensure of a task B is
\* invoked, the Ensure of every task A earlier in the list has already been
\* invoked in this run and has returned without error.
C1_EnsureInCreationOrder ==
  op = "reconcile" =>
    \A q \in Calls("Ensure") : \A a \in Slots :
      a < trace[q].task =>
        \E p \in CallsOf("Ensure", a) : p < q /\ trace[p].res # "error"

\* a reconcile run that has invoked Ensure for the last task
C1_Witness ==
  /\ op = "reconcile"
  /\ CallsOf("Ensure", NumTasks) # {}
  /\ \A a \in Slots : CallsOf("Ensure", a) # {}

\* C2: in a run of EnsureInfrastructureDeleted, when the EnsureDeleted of a
\* task A is invoked, the EnsureDeleted of every task B later in the list
\* has already been invoked and has returned; the calls are in strictly
\* descending list order.
C2_DeleteInReverseOrder ==
  op = "delete" =>
    /\ \A q \in Calls("EnsureDeleted") : \A b \in Slots :
         b > trace[q].task => \E p \in CallsOf("EnsureDeleted", b) : p < q
    /\ \A p, q \in Calls("EnsureDeleted") :
         p < q => trace[p].task > trace[q].task

\* a delete run that has reached the first task of the list
C2_Witness ==
  /\ op = "delete"
  /\ pc = "returned"
  /\ CallsOf("EnsureDeleted", 1) # {}
  /\ CallsOf("EnsureDeleted", NumTasks) # {}

\* C3: once the Ensure of task k has failed in EnsureInfrastructure, the
\* call has returned an error carrying the Label of k, that Ensure is the
\* last task operation of the run, no operation was invoked for a later
\* task, EnsureDeleted was never invoked, and every earlier task still has
\* its Reference (and its remote object) set.
C3_AbortOnEnsureError ==
  op = "reconcile" =>
    \A p \in Calls("Ensure") :
      trace[p].res = "error" =>
        LET k == trace[p].task
        IN /\ pc = "returned"
           /\ err = [label |-> Label(k), wrap |-> "failed"]
           /\ p = Len(trace)
           /\ \A q \in DOMAIN trace : trace[q].task <= k
           /\ Calls("EnsureDeleted") = {}
           /\ \A j \in Slots : j < k => state[j] # NoRef /\ state[j] \in remote[j]
           /\ \A j \in Slots : snap.remote[j] \subseteq remote[j]

\* a run in which the first task created its object and the second failed
C3_Witness ==
  /\ op = "reconcile"
  /\ pc = "returned"
  /\ err = [label |-> Label(2), wrap |-> "failed"]
  /\ \E p \in CallsOf("Ensure", 1) : trace[p].res = "created"
  /\ state[1] # NoRef

\* C4: once the EnsureDeleted of task k has failed in the delete pass, the
\* call has returned an error carrying the Label of k, no EnsureDeleted was
\* invoked for a task earlier than k, and state and remote objects of the
\* earlier tasks are what they were when the delete pass started.
C4_AbortOnDeleteError ==
  op = "delete" =>
    \A p \in Calls("EnsureDeleted") :
      trace[p].res = "error" =>
        LET k == trace[p].task
        IN /\ pc = "returned"
           /\ err = [label |-> Label(k), wrap |-> "deleting failed"]
           /\ p = Len(trace)
           /\ \A j \in Slots :
                j < k => /\ CallsOf("EnsureDeleted", j) = {}
                         /\ state[j] = passSnap.state[j]
                         /\ remote[j] = passSnap.remote[j]

\* a delete pass that failed at a later task while an earlier task's
\* Reference is still in the state
C4_Witness ==
  /\ op = "delete"
  /\ pc = "returned"
  /\ err # NoErr
  /\ \E p \in Calls("EnsureDeleted") :
       /\ trace[p].res = "error"
       /\ trace[p].task > 1
       /\ state[1] # NoRef
       /\ \E q \in Calls("EnsureDeleted") : trace[q].res = "deleted"

\* C5: in EnsureInfrastructureDeleted with a specification, a failure in
\* the recovery pre-pass does not end the call; the pre-pass goes on to the last
\* task, the delete pass then starts with the last task, and an error
\* returned by the call is the error of a failed EnsureDeleted.
C5_TolerantDeleteRecovery ==
  (op = "delete" /\ ~specNil) =>
    /\ \A p \in PrePass :
         trace[p].res \in {"failed", "error"} =>
           \/ pc = "recover" /\ idx > trace[p].task
           \/ pc = "delete"
           \/ pc = "returned" /\ Calls("EnsureDeleted") # {}
    /\ pc \in {"delete", "returned"} =>
         \A j \in Slots : snap.state[j] = NoRef => \E p \in PrePass : trace[p].task = j
    /\ \A q \in Calls("EnsureDeleted") :
         (\A p \in Calls("EnsureDeleted") : q <= p) => trace[q].task = NumTasks
    /\ (pc = "returned" /\ err # NoErr) =>
         /\ trace[Len(trace)].call = "EnsureDeleted"
         /\ trace[Len(trace)].res = "error"
         /\ err.label = Label(trace[Len(trace)].task)
    /\ (pc = "returned" /\ err = NoErr) =>
         \A j \in Slots : \E q \in CallsOf("EnsureDeleted", j) : trace[q].res # "error"

\* a delete call whose pre-pass failed for a lookup task and for a
\* recoverable task and that nevertheless deleted through to the first task
C5_Witness ==
  /\ op = "delete"
  /\ ~specNil
  /\ pc = "returned"
  /\ err = NoErr
  /\ \E p \in Calls("Ensure") : trace[p].res = "error"
  /\ \E p \in Calls("TryRecover") : trace[p].res = "failed"
  /\ \E q \in Calls("EnsureDeleted") : trace[q].res = "deleted"

\* the running or returned reconcile has completed its iteration for task j
Reached(j) ==
  /\ op = "reconcile"
  /\ \/ pc = "ensure" /\ idx > j
     \/ pc = "returned" /\ idx >= j

Recoverable(j) == Kind(j) \in {"recoverable", "advanced"}

C7_SecondReconcileIsNoOp ==
  (op = "reconcile" /\ second) =>
    /\ Calls("TryRecover") = {}
    /\ \A p \in DOMAIN trace : trace[p].res \in {"verified", "error"}
    /\ state = snap.state
    /\ remote = snap.remote
    /\ (pc = "returned" /\ err = NoErr) =>
         \A j \in Slots : \E p \in CallsOf("Ensure", j) : trace[p].res = "verified"

\* a second reconcile run that has returned without error
C7_Witness ==
  /\ op = "reconcile"
  /\ second
  /\ pc = "returned"
  /\ err = NoErr
  /\ Len(trace) = NumTasks

C9_AmbiguityFallsThrough ==
  \A j \in Slots :
    (Reached(j) /\ Recoverable(j) /\ snap.state[j] = NoRef
       /\ Cardinality(snap.remote[j]) # 1) =>
      \E q \in CallsOf("Ensure", j) :
        /\ q > 1
        /\ trace[q - 1].call = "TryRecover" /\ trace[q - 1].task = j
        /\ trace[q - 1].res \in {"absent", "ambiguous", "failed"}
        /\ trace[q].ref = NoRef
        /\ trace[q].res \in {"created", "error"}
        /\ trace[q].res = "created" =>
             /\ state[j] \notin snap.remote[j]
             /\ remote[j] = snap.remote[j] \cup {state[j]}
        /\ trace[q].res = "error" =>
             /\ state[j] = NoRef
             /\ err = [label |-> Label(j), wrap |-> "failed"]

\* a reconcile run whose recovery found two matching objects and whose
\* Ensure then created a further one
C9_Witness ==
  \E j \in Slots :
    /\ Reached(j) /\ Recoverable(j) /\ snap.state[j] = NoRef
    /\ Cardinality(snap.remote[j]) = 2
    /\ \E q \in CallsOf("Ensure", j) :
         /\ trace[q].res = "created"
         /\ q > 1 /\ trace[q - 1].res = "ambiguous"

\* C10: a delete call that returns without error has invoked EnsureDeleted
\* exactly once for every task, last task first; a task that had no
\* Reference when the delete pass started returned "nothing deleted" and
\* its remote objects are untouched, a task that had one lost it and its
\* remote object.
C10_SafePartialDeletion ==
  (op = "delete" /\ pc = "returned" /\ err = NoErr) =>
    /\ Cardinality(Calls("EnsureDeleted")) = NumTasks
    /\ \A j \in Slots :
         \E q \in CallsOf("EnsureDeleted", j) :
           /\ \A p \in Calls("EnsureDeleted") : p < q <=> trace[p].task > j
           /\ state[j] = NoRef
           /\ passSnap.state[j] = NoRef =>
                /\ trace[q].res = "absent"
                /\ remote[j] = passSnap.remote[j]
           /\ passSnap.state[j] # NoRef =>
                /\ trace[q].res = "deleted"
                /\ Kind(j) # "lookup" =>
                     remote[j] = passSnap.remote[j] \ {passSnap.state[j]}

\* a delete call for which only the first and the third task held a
\* Reference and which deleted both
C10_Witness ==
  /\ op = "delete"
  /\ pc = "returned"
  /\ err = NoErr
  /\ passSnap.state[1] # NoRef
  /\ passSnap.state[2] = NoRef
  /\ passSnap.state[3] # NoRef
  /\ \A j \in Slots : CallsOf("EnsureDeleted", j) # {}
  /\ state[1] = NoRef /\ state[3] = NoRef

\* C11: a delete call without specification invokes no recovery and no
\* Ensure; EnsureDeleted is its only task operation, no pre-pass
\* iteration runs, and the state changes only by References being cleared
\* while no remote object is added.
C11_NilSpecDeletesOnly ==
  (op = "delete" /\ specNil) =>
    /\ pc # "recover"
    /\ steps.pre = 0
    /\ \A p \in DOMAIN trace : trace[p].call = "EnsureDeleted"
    /\ \A j \in Slots :
         /\ state[j] \in {snap.state[j], NoRef}
         /\ remote[j] \subseteq snap.remote[j]
         /\ state[j] # snap.state[j] =>
              \E q \in CallsOf("EnsureDeleted", j) : trace[q].res = "deleted"

\* a delete call without specification that met a slot without Reference
\* whose object still exists, left it alone and cleared another Reference
C11_Witness ==
  /\ op = "delete"
  /\ specNil
  /\ pc = "returned"
  /\ err = NoErr
  /\ \E j \in Slots :
       /\ Recoverable(j)
       /\ snap.state[j] = NoRef
       /\ Cardinality(snap.remote[j]) = 1
       /\ remote[j] = snap.remote[j]
  /\ \E q \in Calls("EnsureDeleted") : trace[q].res = "deleted"

\* C12 as stated: during a delete call no task's Ensure is invoked and no
\* remote object is created.
C12_NoEnsureInDelete ==
  op = "delete" =>
    /\ Calls("Ensure") = {}
    /\ \A j \in Slots : remote[j] \subseteq snap.remote[j]

\* C12: during a delete call the pre-pass searches by tags for every
\* recoverable task without Reference, as reconcile does, and invokes
\* Ensure only for lookup tasks without Reference; the Ensure of a
\* recoverable task is never invoked and no remote object is created.
C12_PrePassRecoversOrLooksUp ==
  op = "delete" =>
    /\ \A p \in Calls("Ensure") :
         /\ ~specNil
         /\ Kind(trace[p].task) = "lookup"
         /\ trace[p].ref = NoRef
         /\ snap.state[trace[p].task] = NoRef
         /\ trace[p].res \in {"found", "error"}
    /\ \A p \in Calls("TryRecover") :
         /\ ~specNil
         /\ Recoverable(trace[p].task)
         /\ snap.state[trace[p].task] = NoRef
         /\ trace[p].res = "restored" => Cardinality(snap.remote[trace[p].task]) = 1
         /\ trace[p].res = "absent" => snap.remote[trace[p].task] = {}
         /\ trace[p].res = "ambiguous" => Cardinality(snap.remote[trace[p].task]) > 1
    /\ \A j \in Slots : remote[j] \subseteq snap.remote[j]
    /\ (~specNil /\ pc \in {"delete", "returned"}) =>
         \A j \in Slots :
           snap.state[j] = NoRef =>
             \E p \in PrePass :
               /\ trace[p].task = j
               /\ trace[p].call = IF Recoverable(j) THEN "TryRecover" ELSE "Ensure"

\* a delete call whose pre-pass looked up a lookup task through Ensure and
\* restored the Reference of a recoverable task
C12_Witness ==
  /\ op = "delete"
  /\ ~specNil
  /\ pc = "returned"
  /\ \E p \in Calls("Ensure") : trace[p].res = "found"
  /\ \E p \in Calls("TryRecover") : trace[p].res = "restored"

\* C13: recovery (the tag search, and the lookup of the delete pre-pass)
\* is attempted only for a slot that holds no Reference; a slot that holds
\* a Reference when the call starts is never searched for, and the
\* recovery step hands it on unchanged to Ensure or to the delete pass.
C13_RecoveryOnlyForEmptySlots ==
  /\ \A p \in Calls("TryRecover") :
       trace[p].ref = NoRef /\ snap.state[trace[p].task] = NoRef
  /\ op = "delete" =>
       /\ \A p \in Calls("Ensure") :
            trace[p].ref = NoRef /\ snap.state[trace[p].task] = NoRef
       /\ pc \in {"delete", "returned"} =>
            \A j \in Slots :
              snap.state[j] # NoRef => passSnap.state[j] = snap.state[j]
  /\ op = "reconcile" =>
       \A j \in Slots :
         (Reached(j) /\ snap.state[j] # NoRef) =>
           /\ CallsOf("TryRecover", j) = {}
           /\ \E q \in CallsOf("Ensure", j) : trace[q].ref = snap.state[j]

\* a delete call with specification that started with one recoverable slot
\* filled and another one empty, and whose pre-pass is over
C13_Witness ==
  /\ op = "delete"
  /\ ~specNil
  /\ pc \in {"delete", "returned"}
  /\ \E j, k \in Slots :
       /\ Recoverable(j) /\ snap.state[j] # NoRef
       /\ Recoverable(k) /\ snap.state[k] = NoRef
       /\ CallsOf("TryRecover", k) # {}
       /\ CallsOf("TryRecover", j) = {}

\* C14: in EnsureInfrastructure every recovery attempt, whatever its
\* outcome, is directly followed by the Ensure of the same task, every
\* task the loop has reached had its Ensure invoked, and an error returned
\* by the call is the wrapped error of the Ensure invoked last.
C14_RecoveryIsBestEffort ==
  op = "reconcile" =>
    /\ \A p \in Calls("TryRecover") :
         /\ trace[p].res \in {"restored", "absent", "ambiguous", "failed"}
         /\ p + 1 \in DOMAIN trace
         /\ trace[p + 1].call = "Ensure"
         /\ trace[p + 1].task = trace[p].task
    /\ \A j \in Slots : Reached(j) => CallsOf("Ensure", j) # {}
    /\ (pc = "returned" /\ err # NoErr) =>
         /\ trace[Len(trace)].call = "Ensure"
         /\ trace[Len(trace)].res = "error"
         /\ err = [label |-> Label(trace[Len(trace)].task), wrap |-> "failed"]
    /\ (pc = "returned" /\ err = NoErr) =>
         \A p \in Calls("Ensure") : trace[p].res # "error"

\* a reconcile run that returned without error although one recovery
\* search failed, while another recovery restored a Reference
C14_Witness ==
  /\ op = "reconcile"
  /\ pc = "returned"
  /\ err = NoErr
  /\ \E p \in Calls("TryRecover") :
       trace[p].res = "failed" /\ trace[p + 1].res = "created"
  /\ \E p \in Calls("TryRecover") :
       trace[p].res = "restored" /\ trace[p + 1].res = "verified"

\* C15: within one EnsureInfrastructure call the Ensure of a task is
\* invoked at most once and the loop runs at most once per task; within
\* one EnsureInfrastructureDeleted call the EnsureDeleted of a task is
\* invoked at most once and each of the two loops runs at most once per
\* task; a failed task operation is the last operation of its call, and a
\* call that has used up its iterations has returned.
C15_NoRetryBoundedPasses ==
  /\ op = "reconcile" =>
       /\ \A j \in Slots : Cardinality(CallsOf("Ensure", j)) <= 1
       /\ steps.pre = 0 /\ steps.pass <= NumTasks
       /\ steps.pass = Cardinality(Calls("Ensure"))
       /\ \A p \in Calls("Ensure") :
            trace[p].res = "error" => p = Len(trace) /\ pc = "returned"
       /\ steps.pass = NumTasks => pc = "returned"
  /\ op = "delete" =>
       /\ \A j \in Slots : Cardinality(CallsOf("EnsureDeleted", j)) <= 1
       /\ steps.pre <= NumTasks /\ steps.pass <= NumTasks
       /\ steps.pass = Cardinality(Calls("EnsureDeleted"))
       /\ \A p \in Calls("EnsureDeleted") :
            trace[p].res = "error" => p = Len(trace) /\ pc = "returned"
       /\ steps.pass = NumTasks => pc = "returned"
       /\ steps.pass > 0 => steps.pre \in {0, NumTasks}

\* a delete call that ran both passes to the end and returned the error of
\* the EnsureDeleted of the first task
C15_Witness ==
  /\ op = "delete"
  /\ pc = "returned"
  /\ err # NoErr
  /\ steps = [pre |-> NumTasks, pass |-> NumTasks]
  /\ trace[Len(trace)].task = 1

\* the last call was a reconcile that returned success with every slot ensured
AllEnsured ==
  /\ pc = "returned"
  /\ op = "reconcile"
  /\ err = NoErr
  /\ \A j \in Slots : state[j] # NoRef /\ state[j] \in remote[j]

\* a reconcile run leaves a slot that was already ensured as it is: its
\* Ensure returns the no-op action (or fails), and only slots that had no
\* Reference are created or looked up
ResumesAtFirstMissing ==
  op = "reconcile" =>
    /\ \A j \in Slots :
         (Reached(j) /\ snap.state[j] # NoRef) =>
           /\ \E q \in CallsOf("Ensure", j) : trace[q].res \in {"verified", "error"}
           /\ state[j] = snap.state[j]
           /\ remote[j] = snap.remote[j]
    /\ \A p \in Calls("Ensure") :
         trace[p].res \in {"created", "found"} =>
           /\ snap.state[trace[p].task] = NoRef
           /\ \A j \in Slots :
                j < trace[p].task => state[j] # NoRef /\ state[j] \in remote[j]

\* C16: a re-invoked reconcile verifies the slots that are already ensured
\* without creating anything and creates only from the first slot without
\* Reference on; and once remote calls have stopped failing, a caller that
\* keeps re-invoking EnsureInfrastructure eventually gets a successful
\* return with every slot ensured.
C16_Resumable ==
  /\ []ResumesAtFirstMissing
  /\ (~faults) ~> AllEnsured

\* a successful run that verified the first task, which an aborted run
\* had ensured, and created the object of a later task
C16_Witness ==
  /\ AllEnsured
  /\ ~second
  /\ snap.state[1] # NoRef
  /\ \E q \in CallsOf("Ensure", 1) : trace[q].res = "verified"
  /\ \E p \in Calls("Ensure") :
       /\ trace[p].task > 1
       /\ trace[p].res = "created"
       /\ snap.remote[trace[p].task] = {}

\* C17: when EnsureInfrastructureDeleted has returned without error, no
\* slot of the state holds a Reference, whether it was there from the
\* start, restored or looked up by the pre-pass; and the created objects
\* of every slot whose existing objects were all referenced when the
\* delete pass began are gone.
C17_DeleteLeavesNothing ==
  (op = "delete" /\ pc = "returned" /\ err = NoErr) =>
    /\ \A j \in Slots : state[j] = NoRef
    /\ \A p \in PrePass :
         trace[p].res \in {"restored", "found"} =>
           \E q \in CallsOf("EnsureDeleted", trace[p].task) :
             trace[q].res = "deleted" /\ trace[q].ref # NoRef
    /\ \A j \in Slots :
         (Kind(j) # "lookup" /\ passSnap.remote[j] \subseteq {passSnap.state[j]}) =>
           remote[j] = {}

\* a successful delete call with specification whose pre-pass restored a
\* Reference and looked one up, and after which no created object is left
C17_Witness ==
  /\ op = "delete"
  /\ ~specNil
  /\ pc = "returned"
  /\ err = NoErr
  /\ \E p \in Calls("TryRecover") : trace[p].res = "restored"
  /\ \E p \in Calls("Ensure") : trace[p].res = "found"
  /\ \E j \in Slots : Kind(j) # "lookup" /\ passSnap.remote[j] # {}
  /\ \A j \in Slots : Kind(j) # "lookup" => remote[j] = {}

\* C18: in a delete call every operation of the recovery pre-pass precedes
\* every EnsureDeleted; the pre-pass visits the tasks in list order, one
\* iteration per task, and with a specification it has run for all tasks
\* including the last before the delete pass starts; while it runs no
\* EnsureDeleted has been invoked.
C18_PassesDoNotInterleave ==
  op = "delete" =>
    /\ \A p \in PrePass : \A q \in Calls("EnsureDeleted") : p < q
    /\ \A p, q \in PrePass : p < q => trace[p].task < trace[q].task
    /\ pc = "recover" =>
         /\ steps = [pre |-> idx - 1, pass |-> 0]
         /\ Calls("EnsureDeleted") = {}
         /\ \A p \in PrePass : trace[p].task < idx
    /\ (~specNil /\ pc \in {"delete", "returned"}) => steps.pre = NumTasks
    /\ pc = "delete" =>
         /\ idx = NumTasks - steps.pass
         /\ \A q \in Calls("EnsureDeleted") : trace[q].task > idx

\* a delete call whose pre-pass recovered for the first and for the last
\* task and whose delete pass then ran from the last task to the first
C18_Witness ==
  /\ op = "delete"
  /\ ~specNil
  /\ pc = "returned"
  /\ \E p \in PrePass : trace[p].task = 1
  /\ \E p \in PrePass : trace[p].task = NumTasks
  /\ \A j \in Slots : CallsOf("EnsureDeleted", j) # {}

TypeOK ==
  /\ state \in [Slots -> Refs]
  /\ remote \in [Slots -> SUBSET (1..MaxObjs)]
  /\ pc \in {"idle", "ensure", "recover", "delete", "returned"}
  /\ idx \in Slots
====
